---- MODULE Spec2Model ----
(***************************************************************************)
(* Model of the artifact acquisition engine of icy-launcher: the Download  *)
(* page state machine (pages/download.rs), the verified batch fetches of   *)
(* asset objects, the asset index and libraries (lib/minecraft_assets.rs,  *)
(* lib/minecraft_libraries.rs), the temp-file downloads and the archive    *)
(* unpacking of util/mod.rs, the platform applicability of libraries, the  *)
(* sharded object paths, and the runtime manager (lib/runtime_manager.rs). *)
(***************************************************************************)
EXTENDS Integers, Sequences, FiniteSets, TLC

VARIABLES
    state,      \* Download.state: the variant of pages/download.rs State
    progress,   \* State::Downloading.progress (0 in the other variants)
    items,      \* State::Downloading.items (<<>> in the other variants)
    lastCall,   \* history: the last call made on the Download page
    kind,       \* the entry point a run executes: "objects", "libraries", "index"
    target,     \* the compile-time target_os / target_arch of the build
    batch,      \* the descriptors handed to the entry point, in iteration order
    fs,         \* the files of the store: path -> content, or Absent
    pc,         \* per run: the statement the run is at
    idx,        \* per run: position of the loop in batch
    resp,       \* per run: the body of the HTTP response being copied
    res,        \* per run: "running", or the Result the call returned
    ncall,      \* per run: number of calls of the entry point made so far
    prev,       \* per run, history: the Result of the previous call, or "none"
    log,        \* history: the filesystem, network and callback operations done
    tmp,        \* util: the content of the NamedTempFile, or Absent
    hashArg,    \* util: the hash and hash_function arguments (both Some, or None)
    arg,        \* pure functions: the input the function is applied to
    out,        \* pure functions: the value returned, or Unset before the call
    dirs,       \* util: the directories that exist (download_and_unpack)
    rtdir,      \* runtimes: whether RUNTIMES_DIR exists
    entries,    \* runtimes: entry name -> "none", "file", "dir" or "partial"
    ui,         \* runtimes: AppState (current_view, current_progress, installed_runtimes)
    inst,       \* runtimes: the install in progress (statement, package, bytes, steps)
    rtLast,     \* runtimes, history: the last call that returned, and its result
    document,   \* accounts: accounts.toml (whether it exists, and its accounts)
    adding,     \* accounts: the add in progress (statement, the document it read)
    data,       \* accounts: AppState (current_view, accounts, active_account)
    acLast,     \* accounts, history: the last call that returned, and its result
    current_view,           \* application: IceLauncher.current_view
    new_vanilla_instance,   \* application: the name and selected_version of the form
    lastMsg     \* application, history: the last message update handled

pageVars == <<state, progress, items, lastCall>>

storeVars == <<kind, target, batch, fs, pc, idx, resp, res, ncall, prev, log>>

utilVars == <<tmp, hashArg>>

pureVars == <<arg, out>>

diskVars == <<dirs>>

rtVars == <<rtdir, entries, ui, inst, rtLast>>

acVars == <<document, adding, data, acLast>>

navVars == <<current_view, new_vanilla_instance, lastMsg>>

appVars == <<acVars, navVars>>

sideVars == <<pureVars, diskVars, rtVars, appVars>>

vars == <<pageVars, storeVars, utilVars, sideVars>>

\* the value of out before a function has been applied
Unset == [set |-> FALSE]

\* the variables of the other components while one component is exercised
IdleDisk == dirs = {}

\* the runtime manager while another component is exercised
IdleRuntime ==
    /\ rtdir = FALSE
    /\ entries = <<>>
    /\ ui = Unset
    /\ inst = Unset
    /\ rtLast = Unset

\* the accounts and the application shell while another component is exercised
IdleApp ==
    /\ document = Unset
    /\ adding = Unset
    /\ data = Unset
    /\ acLast = Unset
    /\ current_view = "Instances"
    /\ new_vanilla_instance = Unset
    /\ lastMsg = Unset

IdleSide ==
    /\ arg = Unset
    /\ out = Unset
    /\ IdleDisk
    /\ IdleRuntime
    /\ IdleApp

\* what the application of a pure function leaves alone
PureFrame == UNCHANGED <<arg, pageVars, storeVars, utilVars, diskVars, rtVars, appVars>>

(***************************************************************************)
(* Bounds and universes                                                    *)
(***************************************************************************)
\* longest batch (Vec<Library>, AssetIndex.objects, Vec<DownloadItem>)
MaxBatch == 2

\* The artifact descriptors a batch is built from.
Artifacts == {"a1", "a2"}

RECURSIVE SeqsUpTo(_, _)
SeqsUpTo(S, n) ==
    IF n = 0 THEN {<<>>}
    ELSE LET shorter == SeqsUpTo(S, n - 1)
         IN  shorter \cup {Append(s, x) : s \in {t \in shorter : Len(t) = n - 1}, x \in S}

Batches == SeqsUpTo(Artifacts, MaxBatch)

\* Percentages an Advanced event may carry.
Percentages == {0, 25, 50, 100}

\* longest file content and response body, in bytes
MaxLen == 2

\* calls of one entry point made in a row on the same descriptor
MaxCalls == 2

\* executions of an entry point; only run 1 is started in Spec, SpecAgain
\* and SpecUtil
Runs == {1, 2}

\* File contents: byte strings over the two bytes "[" and "]".
Bytes == {"[", "]"}

Contents == SeqsUpTo(Bytes, MaxLen)

Absent == <<"absent">>

FileStates == Contents \cup {Absent}

Prefix(c, k) == SubSeq(c, 1, k)

\* The content each descriptor's expected digest was computed from.
Good(a) == IF a = "a1" THEN <<"[", "]">> ELSE <<"]">>

(***************************************************************************)
(* Digests (sha1 crate, base16ct::lower::encode_string): a lower-case hex  *)
(* string that determines the content on the bounded universe.             *)
(***************************************************************************)
HexDigit(n) == <<"0", "1", "2", "3", "4", "5", "6", "7", "8", "9">>[n + 1]

HexOfByte(b) == IF b = "[" THEN "b" ELSE "d"

Sha1(c) == <<"a", HexDigit(Len(c))>> \o [i \in 1..Len(c) |-> HexOfByte(c[i])]

Sha256(c) ==
    <<"e", HexDigit(Len(c))>> \o [i \in 1..Len(c) |-> IF c[i] = "[" THEN "c" ELSE "f"]

\* Artifact.sha1 / Object.hash / AssetIndexInfo.sha1 of a descriptor
ExpectedSha1(a) == Sha1(Good(a))

\* serde_json::from_reader on these byte strings: "[]" is the one document.
\* (a balanced, properly nested bracket string is a JSON array of arrays)
RECURSIVE Depth(_, _, _)
Depth(c, i, d) ==
    IF d < 0 THEN -1
    ELSE IF i > Len(c) THEN d
    ELSE IF d = 0 /\ i > 1 THEN -1
    ELSE IF i > 1 /\ c[i - 1] = "]" /\ c[i] = "[" THEN -1
    ELSE Depth(c, i + 1, IF c[i] = "[" THEN d + 1 ELSE d - 1)

ParsesAsJson(c) == Len(c) > 0 /\ Depth(c, 1, 0) = 0

(***************************************************************************)
(* lib/minecraft_libraries.rs: platform applicability                      *)
(***************************************************************************)
\* The four targets the crate defines NATIVES_STRING for.
Targets == {[os |-> "linux", arch |-> "x86_64"], [os |-> "macos", arch |-> "x86_64"],
            [os |-> "macos", arch |-> "aarch64"], [os |-> "windows", arch |-> "x86_64"]}

\* str::contains on paths written as token sequences
Contains(path, pat) ==
    \E i \in 0..(Len(path) - Len(pat)) : SubSeq(path, i + 1, i + Len(pat)) = pat

NATIVES_STRING(t) ==
    CASE t.os = "linux" -> <<"natives", "-linux">>
      [] t.os = "macos" /\ t.arch = "x86_64" -> <<"natives", "-macos">>
      [] t.os = "macos" /\ t.arch = "aarch64" -> <<"natives", "-macos", "-arm64">>
      [] t.os = "windows" -> <<"natives", "-windows">>

\* Artifact::is_valid
Artifact_is_valid(path, t) ==
    IF Contains(path, <<"natives">>) /\ ~Contains(path, NATIVES_STRING(t)) THEN FALSE
    ELSE IF t.arch # "x86_64" /\ Contains(path, <<"x86_64">>) THEN FALSE
    ELSE IF t.arch # "aarch64" /\ Contains(path, <<"aarch_64">>) THEN FALSE
    ELSE TRUE

\* minecraft_rules::is_rule_list_valid: last matching rule wins, allow when
\* no rule matches
RuleMatches(rule, t) ==
    /\ rule.os \in {"any", t.os}
    /\ rule.arch \in {"any", t.arch}

RECURSIVE RuleListResult(_, _, _)
RuleListResult(rules, t, sofar) ==
    IF rules = <<>> THEN sofar
    ELSE RuleListResult(Tail(rules), t,
                        IF RuleMatches(Head(rules), t)
                        THEN Head(rules).action = "allow" ELSE sofar)

is_rule_list_valid(rules, t) == RuleListResult(rules, t, TRUE)

\* The Library a descriptor stands for when the batch is a Libraries list:
\* downloads.artifact.path and downloads.rules
LibraryPath(a) ==
    IF a = "a1" THEN <<"org", "lwjgl", "natives", "-linux">> ELSE <<"net", "jna">>

\* downloads.rules is an Option<Vec<Rule>>
LibraryRules(a) ==
    IF a = "a1" THEN [some |-> FALSE, rules |-> <<>>]
    ELSE [some |-> TRUE,
          rules |-> <<[action |-> "allow", os |-> "any", arch |-> "any"],
                      [action |-> "disallow", os |-> "macos", arch |-> "any"]>>]

\* a mutation of is_valid: the rule list is not consulted
is_valid_ignoring_rules(path, rules, t) ==
    Artifact_is_valid(path, t)

\* Library::is_valid, on the artifact path and the rules of the library
is_valid(path, rules, t) ==
    IF ~Artifact_is_valid(path, t) THEN FALSE
    ELSE IF rules.some THEN is_rule_list_valid(rules.rules, t)
    ELSE TRUE

\* Library::is_valid of the library a descriptor stands for
Library_is_valid(a, t) == is_valid(LibraryPath(a), LibraryRules(a), t)

(***************************************************************************)
(* pages/download.rs: the Download page                                    *)
(***************************************************************************)
Progress == {[tag |-> "Started"], [tag |-> "Finished"], [tag |-> "Errored"]}
            \cup {[tag |-> "Advanced", percentage |-> p] : p \in Percentages}

Terminal == {"Finished", "Errored"}

InitPage ==
    /\ state = "Idle"
    /\ progress = 0
    /\ items = <<>>
    /\ lastCall = [op |-> "new"]

\* start without the match on the current state: a running batch is replaced
start_restarts(new_items) ==
    /\ lastCall' = [op |-> "start", items |-> new_items]
    /\ state' = "Downloading"
    /\ progress' = 0
    /\ items' = new_items

\* Download::start
start(new_items) ==
    /\ lastCall' = [op |-> "start", items |-> new_items]
    /\ IF state \in {"Idle", "Finished", "Errored"}
       THEN /\ state' = "Downloading"
            /\ progress' = 0
            /\ items' = new_items
       ELSE UNCHANGED <<state, progress, items>>

\* update without the `if let State::Downloading` guard
update_unguarded(new_progress) ==
    /\ lastCall' = [op |-> "update", event |-> new_progress]
    /\ CASE new_progress.tag = "Started" ->
              /\ progress' = 0
              /\ UNCHANGED <<state, items>>
         [] new_progress.tag = "Advanced" ->
              /\ progress' = new_progress.percentage
              /\ UNCHANGED <<state, items>>
         [] new_progress.tag = "Finished" ->
              /\ state' = "Finished"
              /\ progress' = 0
              /\ items' = <<>>
         [] new_progress.tag = "Errored" ->
              /\ state' = "Errored"
              /\ progress' = 0
              /\ items' = <<>>

\* an update whose Started arm leaves the progress as it is
update_started_ignored(new_progress) ==
    /\ lastCall' = [op |-> "update", event |-> new_progress]
    /\ IF state = "Downloading"
       THEN CASE new_progress.tag = "Started" ->
                   UNCHANGED <<state, progress, items>>
              [] new_progress.tag = "Advanced" ->
                   /\ progress' = new_progress.percentage
                   /\ UNCHANGED <<state, items>>
              [] new_progress.tag = "Finished" ->
                   /\ state' = "Finished"
                   /\ progress' = 0
                   /\ items' = <<>>
              [] new_progress.tag = "Errored" ->
                   /\ state' = "Errored"
                   /\ progress' = 0
                   /\ items' = <<>>
       ELSE UNCHANGED <<state, progress, items>>

\* Download::update
update(new_progress) ==
    /\ lastCall' = [op |-> "update", event |-> new_progress]
    /\ IF state = "Downloading"
       THEN CASE new_progress.tag = "Started" ->
                   /\ progress' = 0
                   /\ UNCHANGED <<state, items>>
              [] new_progress.tag = "Advanced" ->
                   /\ progress' = new_progress.percentage
                   /\ UNCHANGED <<state, items>>
              [] new_progress.tag = "Finished" ->
                   /\ state' = "Finished"
                   /\ progress' = 0
                   /\ items' = <<>>
              [] new_progress.tag = "Errored" ->
                   /\ state' = "Errored"
                   /\ progress' = 0
                   /\ items' = <<>>
       ELSE UNCHANGED <<state, progress, items>>

(***************************************************************************)
(* lib/minecraft_assets.rs, lib/minecraft_libraries.rs: the verified fetch *)
(* of a batch (AssetIndex::download_objects, Libraries::download) and of   *)
(* the asset index (AssetIndexInfo::get)                                   *)
(***************************************************************************)
BatchKinds == {"objects", "libraries", "index"}

\* a mutation of Object_get_path: the shard is cut from the end of the hash
Object_get_path_tail(hash) ==
    <<"assets", "objects", SubSeq(hash, Len(hash) - 1, Len(hash)), hash>>

\* Object::get_path: OBJECTS_DIR.join(&self.hash[..2]).join(&self.hash), as
\* the sequence of the path's components
Object_get_path(hash) ==
    <<"assets", "objects", Prefix(hash, 2), hash>>

\* the segments of a relative reference, as Url::join separates them
RECURSIVE Segments(_, _)
Segments(s, cur) ==
    IF s = <<>> THEN <<cur>>
    ELSE IF Head(s) = "/" THEN <<cur>> \o Segments(Tail(s), <<>>)
    ELSE Segments(Tail(s), Append(cur, Head(s)))

\* Object::get_url: ASSETS_DOWNLOAD_ENDPOINT.join(format!("{}/{}", ..))
Object_get_url(hash) ==
    [host |-> "resources.download.minecraft.net",
     path |-> Segments(Prefix(hash, 2) \o <<"/">> \o hash, <<>>)]

\* Object::get_path, Library::get_path, AssetIndexInfo::get_path
get_path(k, a) ==
    CASE k = "objects" -> Object_get_path(ExpectedSha1(a))
      [] k = "libraries" -> <<"libraries">> \o LibraryPath(a)
      [] k = "index" -> <<"assets", "indexes", a, ".json">>
      [] k \in {"file", "json", "unpack"} -> <<"dest", a>>

Paths(k) == {get_path(k, a) : a \in Artifacts}

Item(r) == batch[idx[r]]

Path(r) == get_path(kind, Item(r))

Entry(r, op, c) ==
    [run |-> r, call |-> ncall[r], i |-> idx[r], op |-> op, c |-> c,
     k |-> 0, n |-> 0]

\* an error that is recorded while the loop goes on instead of returning
FailAndContinue(r, why, done) ==
    /\ res' = [res EXCEPT ![r] = why]
    /\ pc' = [pc EXCEPT ![r] = "item"]
    /\ log' = done \o <<Entry(r, "fail", <<why>>)>>

\* the `?` operator and bail!: the call returns Err(why) from where it stands
Fail(r, why, done) ==
    /\ res' = [res EXCEPT ![r] = why]
    /\ pc' = [pc EXCEPT ![r] = "done"]
    /\ log' = done \o <<Entry(r, "fail", <<why>>)>>

Goto(r, where) == pc' = [pc EXCEPT ![r] = where]

\* the hash comparison of Object::check_hash, Library::check_artifact_hash
\* and AssetIndexInfo::check_hash
HashMatches(c, a) == Sha1(c) = ExpectedSha1(a)

\* entry of download_objects / download / get: the first idle callback
\* (progress reset, or the Loading view) and the start of the loop
call(r) ==
    /\ pc[r] = "call"
    /\ log' = log \o
              (IF kind = "objects"
               THEN <<[Entry(r, "reset", <<>>) EXCEPT !.i = 0]>>
               ELSE IF kind = "index"
               THEN <<[Entry(r, "loading", <<>>) EXCEPT !.i = 0]>>
               ELSE <<>>)
    /\ idx' = [idx EXCEPT ![r] = 1]
    /\ Goto(r, "item")
    /\ UNCHANGED <<kind, target, batch, fs, resp, res, ncall, prev>>

\* head of the for loop: the next item, or Ok(()) when the list is exhausted
item(r) ==
    /\ pc[r] = "item"
    /\ IF idx[r] <= Len(batch)
       THEN /\ log' = Append(log, Entry(r, "begin", fs[Path(r)]))
            /\ Goto(r, "exists")
            /\ UNCHANGED res
       ELSE /\ res' = [res EXCEPT ![r] = "ok"]
            /\ Goto(r, "done")
            /\ UNCHANGED log
    /\ UNCHANGED <<kind, target, batch, fs, idx, resp, ncall, prev>>

\* `if path.exists() && !check_hash()?`
exists_check(r) ==
    /\ pc[r] = "exists"
    /\ IF fs[Path(r)] = Absent
       THEN /\ Goto(r, "missing")
            /\ UNCHANGED <<res, log>>
       ELSE \/ Fail(r, "io", log)
            \/ /\ log' = Append(log, Entry(r, "check", fs[Path(r)]))
               /\ Goto(r, IF HashMatches(fs[Path(r)], Item(r)) THEN "missing" ELSE "remove")
               /\ UNCHANGED res
    /\ UNCHANGED <<kind, target, batch, fs, idx, resp, ncall, prev>>

\* a corrupted file that is left in place instead of being deleted
remove_file_skipped(r) ==
    /\ pc[r] = "remove"
    /\ Goto(r, "missing")
    /\ UNCHANGED <<kind, target, batch, fs, idx, resp, res, ncall, prev, log>>

\* fs::remove_file(&path)?
remove_file(r) ==
    /\ pc[r] = "remove"
    /\ \/ /\ Fail(r, "io", log)
          /\ UNCHANGED fs
       \/ /\ fs[Path(r)] # Absent
          /\ fs' = [fs EXCEPT ![Path(r)] = Absent]
          /\ log' = Append(log, Entry(r, "remove", fs[Path(r)]))
          /\ Goto(r, "missing")
          /\ UNCHANGED res
    /\ UNCHANGED <<kind, target, batch, idx, resp, ncall, prev>>

\* a fetch that is made whether or not the file exists
missing_check_always(r) ==
    /\ pc[r] = "missing"
    /\ Goto(r, "download")
    /\ UNCHANGED <<kind, target, batch, fs, idx, resp, res, ncall, prev, log>>

\* `if !path.exists()`
missing_check(r) ==
    /\ pc[r] = "missing"
    /\ Goto(r, IF fs[Path(r)] = Absent THEN "download" ELSE "verify")
    /\ UNCHANGED <<kind, target, batch, fs, idx, resp, res, ncall, prev, log>>

\* Object::download, Library::download_artifact, AssetIndexInfo::download:
\* create_dir_all and the HTTP request
download(r) ==
    /\ pc[r] = "download"
    /\ \/ /\ Fail(r, "io", log)
          /\ UNCHANGED resp
       \/ /\ Fail(r, "transfer", log)
          /\ UNCHANGED resp
       \/ \E body \in Contents :
            /\ resp' = [resp EXCEPT ![r] = body]
            /\ log' = Append(log, Entry(r, "fetch", body))
            /\ Goto(r, "create")
            /\ UNCHANGED res
    /\ UNCHANGED <<kind, target, batch, fs, idx, ncall, prev>>

\* File::create(&path)?: the file is created, or truncated, at its final path
create(r) ==
    /\ pc[r] = "create"
    /\ \/ /\ Fail(r, "io", log)
          /\ resp' = [resp EXCEPT ![r] = Absent]
          /\ UNCHANGED fs
       \/ /\ fs' = [fs EXCEPT ![Path(r)] = <<>>]
          /\ log' = Append(log, Entry(r, "create", <<>>))
          /\ Goto(r, "copy")
          /\ UNCHANGED <<res, resp>>
    /\ UNCHANGED <<kind, target, batch, idx, ncall, prev>>

\* io::copy(&mut resp, &mut writer)?: all of the body, or an error after the
\* first k bytes
copy(r) ==
    /\ pc[r] = "copy"
    /\ \/ \E k \in 0..Len(resp[r]) :
            /\ fs' = [fs EXCEPT ![Path(r)] = Prefix(resp[r], k)]
            /\ Fail(r, "transfer", Append(log, Entry(r, "write", Prefix(resp[r], k))))
       \/ /\ fs' = [fs EXCEPT ![Path(r)] = resp[r]]
          /\ log' = Append(log, Entry(r, "write", resp[r]))
          /\ Goto(r, "verify")
          /\ UNCHANGED res
    /\ resp' = [resp EXCEPT ![r] = Absent]
    /\ UNCHANGED <<kind, target, batch, idx, ncall, prev>>

\* an iteration that reports the progress before counting the item
CompletedStale(r, done) ==
    /\ log' = done \o <<Entry(r, "done", fs[Path(r)])>> \o
              (IF kind = "objects"
               THEN <<[Entry(r, "progress", <<>>) EXCEPT !.k = idx[r] - 1, !.n = Len(batch)]>>
               ELSE <<>>)
    /\ idx' = [idx EXCEPT ![r] = idx[r] + 1]
    /\ Goto(r, IF kind = "index" THEN "parse" ELSE "item")
    /\ UNCHANGED res

\* an iteration after which the loop starts over from the first item
CompletedFromStart(r, done) ==
    /\ log' = done \o <<Entry(r, "done", fs[Path(r)])>> \o
              (IF kind = "objects"
               THEN <<[Entry(r, "progress", <<>>) EXCEPT !.k = idx[r], !.n = Len(batch)]>>
               ELSE <<>>)
    /\ idx' = [idx EXCEPT ![r] = IF idx[r] = 1 THEN 2 ELSE 1]
    /\ Goto(r, IF kind = "index" THEN "parse" ELSE "item")
    /\ UNCHANGED res

\* the end of one loop iteration: downloaded_objects += 1 and the progress
\* callback (download_objects only), then the next item
Completed(r, done) ==
    /\ log' = done \o <<Entry(r, "done", fs[Path(r)])>> \o
              (IF kind = "objects"
               THEN <<[Entry(r, "progress", <<>>) EXCEPT !.k = idx[r], !.n = Len(batch)]>>
               ELSE <<>>)
    /\ idx' = [idx EXCEPT ![r] = idx[r] + 1]
    /\ Goto(r, IF kind = "index" THEN "parse" ELSE "item")
    /\ UNCHANGED res

\* an iteration that ends without the final check_hash
verify_unchecked(r) ==
    /\ pc[r] = "verify"
    /\ fs[Path(r)] # Absent
    /\ Completed(r, log)
    /\ UNCHANGED <<kind, target, batch, fs, resp, ncall, prev>>

\* `if !check_hash()? { bail!(..) }`
verify(r) ==
    /\ pc[r] = "verify"
    /\ \/ /\ Fail(r, "io", log)
          /\ UNCHANGED idx
       \/ /\ fs[Path(r)] # Absent
          /\ IF HashMatches(fs[Path(r)], Item(r))
             THEN Completed(r, Append(log, Entry(r, "check", fs[Path(r)])))
             ELSE /\ Fail(r, "mismatch", Append(log, Entry(r, "check", fs[Path(r)])))
                  /\ UNCHANGED idx
    /\ UNCHANGED <<kind, target, batch, fs, resp, ncall, prev>>

\* AssetIndexInfo::get: File::open and serde_json::from_reader of the index
parse(r) ==
    /\ pc[r] = "parse"
    /\ LET path == get_path(kind, batch[1])
       IN  \/ Fail(r, "io", log)
           \/ /\ fs[path] # Absent
              /\ IF ParsesAsJson(fs[path])
                 THEN /\ res' = [res EXCEPT ![r] = "ok"]
                      /\ Goto(r, "done")
                      /\ UNCHANGED log
                 ELSE Fail(r, "parse", log)
    /\ UNCHANGED <<kind, target, batch, fs, idx, resp, ncall, prev>>

\* the caller invokes the entry point again on the same descriptors (the
\* history keeps the previous Result and starts afresh for the new call)
retry(r) ==
    /\ pc[r] = "done"
    /\ ncall[r] < MaxCalls
    /\ ncall' = [ncall EXCEPT ![r] = ncall[r] + 1]
    /\ prev' = [prev EXCEPT ![r] = res[r]]
    /\ res' = [res EXCEPT ![r] = "running"]
    /\ log' = <<>>
    /\ Goto(r, "call")
    /\ UNCHANGED <<kind, target, batch, fs, idx, resp>>

\* the build the library runs are explored on: the run itself never reads
\* the target, and this one rejects the first library and accepts the second
RunTargets == {t \in Targets : t.os = "windows"}

InitStore ==
    /\ kind \in BatchKinds
    /\ target \in (IF kind = "libraries" THEN RunTargets
                   ELSE {[os |-> "linux", arch |-> "x86_64"]})
    /\ batch \in (IF kind = "index" THEN {b \in Batches : Len(b) = 1} ELSE Batches)
    /\ fs \in [Paths(kind) -> FileStates]
    /\ pc = [r \in Runs |-> IF r = 1 THEN "call" ELSE "off"]
    /\ idx = [r \in Runs |-> 0]
    /\ resp = [r \in Runs |-> Absent]
    /\ res = [r \in Runs |-> "running"]
    /\ ncall = [r \in Runs |-> IF r = 1 THEN 1 ELSE 0]
    /\ prev = [r \in Runs |-> "none"]
    /\ log = <<>>
    /\ tmp = Absent
    /\ hashArg = [some |-> FALSE]

\* the store while the Download page is exercised on its own
IdleStore ==
    /\ kind = "objects"
    /\ target = [os |-> "linux", arch |-> "x86_64"]
    /\ batch = <<>>
    /\ fs = [p \in Paths("objects") |-> Absent]
    /\ pc = [r \in Runs |-> "off"]
    /\ idx = [r \in Runs |-> 0]
    /\ resp = [r \in Runs |-> Absent]
    /\ res = [r \in Runs |-> "running"]
    /\ ncall = [r \in Runs |-> 0]
    /\ prev = [r \in Runs |-> "none"]
    /\ log = <<>>
    /\ tmp = Absent
    /\ hashArg = [some |-> FALSE]

\* what a step of the store leaves alone
StoreFrame == UNCHANGED <<pageVars, utilVars, sideVars>>

Next ==
    \/ \E r \in Runs : call(r) /\ StoreFrame
    \/ \E r \in Runs : item(r) /\ StoreFrame
    \/ \E r \in Runs : exists_check(r) /\ StoreFrame
    \/ \E r \in Runs : remove_file(r) /\ StoreFrame
    \/ \E r \in Runs : missing_check(r) /\ StoreFrame
    \/ \E r \in Runs : download(r) /\ StoreFrame
    \/ \E r \in Runs : create(r) /\ StoreFrame
    \/ \E r \in Runs : copy(r) /\ StoreFrame
    \/ \E r \in Runs : verify(r) /\ StoreFrame
    \/ \E r \in Runs : parse(r) /\ StoreFrame

Init == InitStore /\ InitPage /\ IdleSide

\* one call of an entry point on any batch, over any initial store
Spec == Init /\ [][Next]_vars

\* repeated calls of an entry point on one descriptor
InitAgain ==
    /\ Init
    /\ Len(batch) = 1
    /\ \A a \in Artifacts \ {batch[1]} : fs[get_path(kind, a)] = Absent

NextAgain ==
    \/ Next
    \/ \E r \in Runs : retry(r) /\ StoreFrame

SpecAgain == InitAgain /\ [][NextAgain]_vars

\* a step in which nothing but the other run can make run r fail: the
\* server answers with the valid content, the transfer completes, and an
\* I/O error is returned only by an operation on a file that is not there
NoFault(r) ==
    /\ pc[r] = "download" => resp'[r] = Good(Item(r))
    /\ \/ res'[r] \in {"running", "ok", "mismatch"}
       \/ /\ res'[r] = "io"
          /\ pc[r] \in {"remove", "verify"}
          /\ fs[Path(r)] = Absent

\* download_objects is called on one object, by one caller or by two callers
\* at the same time
InitRace ==
    /\ InitPage
    /\ IdleSide
    /\ kind = "objects"
    /\ target = [os |-> "linux", arch |-> "x86_64"]
    /\ batch \in {b \in Batches : Len(b) = 1}
    /\ fs \in {f \in [Paths(kind) -> FileStates] :
                 \A a \in Artifacts \ {batch[1]} : f[get_path(kind, a)] = Absent}
    /\ pc \in {[r \in Runs |-> "call"], [r \in Runs |-> IF r = 1 THEN "call" ELSE "off"]}
    /\ idx = [r \in Runs |-> 0]
    /\ resp = [r \in Runs |-> Absent]
    /\ res = [r \in Runs |-> "running"]
    /\ ncall = [r \in Runs |-> IF pc[r] = "call" THEN 1 ELSE 0]
    /\ prev = [r \in Runs |-> "none"]
    /\ log = <<>>
    /\ tmp = Absent
    /\ hashArg = [some |-> FALSE]

NextRace ==
    \/ \E r \in Runs : call(r) /\ NoFault(r) /\ StoreFrame
    \/ \E r \in Runs : item(r) /\ NoFault(r) /\ StoreFrame
    \/ \E r \in Runs : exists_check(r) /\ NoFault(r) /\ StoreFrame
    \/ \E r \in Runs : remove_file(r) /\ NoFault(r) /\ StoreFrame
    \/ \E r \in Runs : missing_check(r) /\ NoFault(r) /\ StoreFrame
    \/ \E r \in Runs : download(r) /\ NoFault(r) /\ StoreFrame
    \/ \E r \in Runs : create(r) /\ NoFault(r) /\ StoreFrame
    \/ \E r \in Runs : copy(r) /\ NoFault(r) /\ StoreFrame
    \/ \E r \in Runs : verify(r) /\ NoFault(r) /\ StoreFrame

\* one or two overlapping calls on the same object, the steps of the two
\* interleaved in any order
SpecRace == InitRace /\ [][NextRace]_vars

(***************************************************************************)
(* util/mod.rs: download_file and download_json                            *)
(***************************************************************************)
UtilKinds == {"file", "json"}

HashFunctions == {"sha1", "sha256", "md5"}

\* calc_hash::<D>
calc_hash(fn, c) == IF fn = "sha1" THEN Sha1(c) ELSE Sha256(c)

\* a check_hash that hashes with sha256 under every tag it does not know
check_hash_default_tag(c, hash, hash_function) ==
    IF calc_hash(hash_function, c) # hash THEN "mismatch" ELSE "ok"

\* check_hash: "ok", or the error it bails with
check_hash(c, hash, hash_function) ==
    IF hash_function \notin {"sha1", "sha256"} THEN "unsupported"
    ELSE IF calc_hash(hash_function, c) # hash THEN "mismatch"
    ELSE "ok"

\* the hash / hash_function arguments a caller passes for descriptor a
HashArgs(a) ==
    {[some |-> FALSE]} \cup
    {[some |-> TRUE, hash |-> calc_hash(fn, Good(a)), hash_function |-> fn] :
        fn \in HashFunctions}

UPath == get_path(kind, batch[1])

\* an error return: the NamedTempFile is dropped, which deletes it
FailU(r, why, done) ==
    /\ Fail(r, why, done)
    /\ tmp' = Absent

\* `if path.exists()`: download_file returns Ok(()); download_json opens and
\* parses the file and returns the document
dl_exists(r) ==
    /\ pc[r] = "dl_exists"
    /\ IF fs[UPath] # Absent
       THEN \/ /\ kind = "json"
               /\ Fail(r, "io", Append(log, Entry(r, "begin", fs[UPath])))
            \/ /\ kind = "json" => ParsesAsJson(fs[UPath])
               /\ res' = [res EXCEPT ![r] = "ok"]
               /\ Goto(r, "done")
               /\ log' = Append(log, Entry(r, "begin", fs[UPath]))
            \/ /\ kind = "json" /\ ~ParsesAsJson(fs[UPath])
               /\ Fail(r, "parse", Append(log, Entry(r, "begin", fs[UPath])))
       ELSE /\ Goto(r, "dl_call")
            /\ log' = Append(log, Entry(r, "begin", fs[UPath]))
            /\ UNCHANGED res
    /\ UNCHANGED <<kind, target, batch, fs, idx, resp, ncall, prev, utilVars>>

\* create_dir_all(parent)? and ureq::get(url).call()?
dl_call(r) ==
    /\ pc[r] = "dl_call"
    /\ \/ /\ Fail(r, "io", log)
          /\ UNCHANGED resp
       \/ /\ Fail(r, "transfer", log)
          /\ UNCHANGED resp
       \/ \E body \in Contents :
            /\ resp' = [resp EXCEPT ![r] = body]
            /\ log' = Append(log, Entry(r, "fetch", body))
            /\ Goto(r, "dl_tempfile")
            /\ UNCHANGED res
    /\ UNCHANGED <<kind, target, batch, fs, idx, ncall, prev, utilVars>>

\* NamedTempFile::new()?
dl_tempfile(r) ==
    /\ pc[r] = "dl_tempfile"
    /\ \/ /\ Fail(r, "io", log)
          /\ resp' = [resp EXCEPT ![r] = Absent]
          /\ UNCHANGED tmp
       \/ /\ tmp' = <<>>
          /\ Goto(r, "dl_copy")
          /\ UNCHANGED <<res, resp, log>>
    /\ UNCHANGED <<kind, target, batch, fs, idx, ncall, prev, hashArg>>

\* a copy that writes to the final path instead of the temporary file
dl_copy_in_place(r) ==
    /\ pc[r] = "dl_copy"
    /\ \/ \E k \in 0..Len(resp[r]) :
            /\ fs' = [fs EXCEPT ![UPath] = Prefix(resp[r], k)]
            /\ FailU(r, "transfer", Append(log, Entry(r, "write", Prefix(resp[r], k))))
       \/ /\ fs' = [fs EXCEPT ![UPath] = resp[r]]
          /\ tmp' = resp[r]
          /\ log' = Append(log, Entry(r, "write", resp[r]))
          /\ Goto(r, "dl_check_hash")
          /\ UNCHANGED res
    /\ resp' = [resp EXCEPT ![r] = Absent]
    /\ UNCHANGED <<kind, target, batch, idx, ncall, prev, hashArg>>

\* io::copy(&mut response.into_reader(), &mut writer)? into the temporary
\* file, and the seek back to its start
dl_copy(r) ==
    /\ pc[r] = "dl_copy"
    /\ \/ FailU(r, "transfer", log)
       \/ /\ tmp' = resp[r]
          /\ log' = Append(log, Entry(r, "write", resp[r]))
          /\ Goto(r, "dl_check_hash")
          /\ UNCHANGED res
    /\ resp' = [resp EXCEPT ![r] = Absent]
    /\ UNCHANGED <<kind, target, batch, fs, idx, ncall, prev, hashArg>>

\* `if hash.is_some() { check_hash(..)? }`
dl_check_hash(r) ==
    /\ pc[r] = "dl_check_hash"
    /\ LET next == IF kind = "json" THEN "dl_parse" ELSE "dl_rename"
           verdict == check_hash(tmp, hashArg.hash, hashArg.hash_function)
       IN  IF hashArg.some
           THEN \/ FailU(r, "io", log)
                \/ /\ verdict = "ok"
                   /\ Goto(r, next)
                   /\ log' = Append(log, Entry(r, "check", tmp))
                   /\ UNCHANGED <<res, tmp>>
                \/ /\ verdict # "ok"
                   /\ FailU(r, verdict, Append(log, Entry(r, "check", tmp)))
           ELSE /\ Goto(r, next)
                /\ UNCHANGED <<res, tmp, log>>
    /\ UNCHANGED <<kind, target, batch, fs, idx, resp, ncall, prev, hashArg>>

\* download_json: serde_json::from_reader(reader)? on the temporary file
dl_parse(r) ==
    /\ pc[r] = "dl_parse"
    /\ IF ParsesAsJson(tmp)
       THEN /\ Goto(r, "dl_rename")
            /\ UNCHANGED <<res, tmp, log>>
       ELSE FailU(r, "parse", log)
    /\ UNCHANGED <<kind, target, batch, fs, idx, resp, ncall, prev, hashArg>>

\* fs::rename(file, path)? and the Ok return
dl_rename(r) ==
    /\ pc[r] = "dl_rename"
    /\ \/ /\ FailU(r, "io", log)
          /\ UNCHANGED fs
       \/ /\ fs' = [fs EXCEPT ![UPath] = tmp]
          /\ tmp' = Absent
          /\ log' = Append(log, Entry(r, "rename", tmp))
          /\ res' = [res EXCEPT ![r] = "ok"]
          /\ Goto(r, "done")
    /\ UNCHANGED <<kind, target, batch, idx, resp, ncall, prev, hashArg>>

UtilStore ==
    /\ kind \in UtilKinds
    /\ target = [os |-> "linux", arch |-> "x86_64"]
    /\ batch \in {b \in Batches : Len(b) = 1}
    /\ fs \in [{get_path(kind, batch[1])} -> FileStates]
    /\ pc = [r \in Runs |-> IF r = 1 THEN "dl_exists" ELSE "off"]
    /\ idx = [r \in Runs |-> 1]
    /\ resp = [r \in Runs |-> Absent]
    /\ res = [r \in Runs |-> "running"]
    /\ ncall = [r \in Runs |-> IF r = 1 THEN 1 ELSE 0]
    /\ prev = [r \in Runs |-> "none"]
    /\ log = <<>>
    /\ tmp = Absent
    /\ hashArg \in HashArgs(batch[1])

NextUtil ==
    \/ \E r \in Runs : dl_exists(r) /\ UNCHANGED <<pageVars, sideVars>>
    \/ \E r \in Runs : dl_call(r) /\ UNCHANGED <<pageVars, sideVars>>
    \/ \E r \in Runs : dl_tempfile(r) /\ UNCHANGED <<pageVars, sideVars>>
    \/ \E r \in Runs : dl_copy(r) /\ UNCHANGED <<pageVars, sideVars>>
    \/ \E r \in Runs : dl_check_hash(r) /\ UNCHANGED <<pageVars, sideVars>>
    \/ \E r \in Runs : dl_parse(r) /\ UNCHANGED <<pageVars, sideVars>>
    \/ \E r \in Runs : dl_rename(r) /\ UNCHANGED <<pageVars, sideVars>>

InitUtil == UtilStore /\ InitPage /\ IdleSide

\* one call of download_file or download_json
SpecUtil == InitUtil /\ [][NextUtil]_vars

(***************************************************************************)
(* util/mod.rs: download_and_unpack                                        *)
(***************************************************************************)
\* the locators an archive is fetched from, written as name and extensions
Urls == {<<"pkg", ".zip">>, <<"pkg", ".tar", ".gz">>, <<"pkg", ".gz">>, <<"pkg", ".7z">>}

\* str::ends_with on locators written as token sequences
EndsWith(url, suffix) ==
    /\ Len(url) >= Len(suffix)
    /\ SubSeq(url, Len(url) - Len(suffix) + 1, Len(url)) = suffix

\* path.parent() of the destination
Parent == <<"dest">>

\* An archive is read as the list of its members: each byte of the body is
\* one member, and a body without members is not an archive.
IsArchive(body) == body # <<>>

\* the file a member is unpacked to under the parent directory
MemberPath(b) == get_path("unpack", IF b = "[" THEN "a1" ELSE "a2")

\* the parent directory after the first k members of body were unpacked
RECURSIVE Extracted(_, _, _)
Extracted(files, body, k) ==
    IF k = 0 THEN files
    ELSE [Extracted(files, body, k - 1) EXCEPT ![MemberPath(body[k])] = <<body[k]>>]

\* `if path.exists() { return Ok(()) }`
un_exists(r) ==
    /\ pc[r] = "un_exists"
    /\ log' = Append(log, Entry(r, "begin", fs[UPath]))
    /\ IF fs[UPath] # Absent
       THEN /\ res' = [res EXCEPT ![r] = "ok"]
            /\ Goto(r, "done")
       ELSE /\ Goto(r, "un_mkdir")
            /\ UNCHANGED res
    /\ UNCHANGED <<kind, target, batch, fs, idx, resp, ncall, prev, utilVars, dirs>>

\* fs::create_dir_all(parent)?
un_mkdir(r) ==
    /\ pc[r] = "un_mkdir"
    /\ \/ /\ Fail(r, "io", log)
          /\ UNCHANGED dirs
       \/ /\ dirs' = dirs \cup {Parent}
          /\ log' = Append(log, Entry(r, "mkdir", Parent))
          /\ Goto(r, "un_call")
          /\ UNCHANGED res
    /\ UNCHANGED <<kind, target, batch, fs, idx, resp, ncall, prev, utilVars>>

\* ureq::get(url).call()?
un_call(r) ==
    /\ pc[r] = "un_call"
    /\ \/ /\ Fail(r, "transfer", log)
          /\ UNCHANGED resp
       \/ \E body \in Contents :
            /\ resp' = [resp EXCEPT ![r] = body]
            /\ log' = Append(log, Entry(r, "fetch", body))
            /\ Goto(r, "un_tempfile")
            /\ UNCHANGED res
    /\ UNCHANGED <<kind, target, batch, fs, idx, ncall, prev, utilVars, dirs>>

\* tempfile()?
un_tempfile(r) ==
    /\ pc[r] = "un_tempfile"
    /\ \/ /\ Fail(r, "io", log)
          /\ resp' = [resp EXCEPT ![r] = Absent]
          /\ UNCHANGED tmp
       \/ /\ tmp' = <<>>
          /\ Goto(r, "un_copy")
          /\ UNCHANGED <<res, resp, log>>
    /\ UNCHANGED <<kind, target, batch, fs, idx, ncall, prev, hashArg, dirs>>

\* io::copy of the response into the temporary file, and the seek to its start
un_copy(r) ==
    /\ pc[r] = "un_copy"
    /\ \/ FailU(r, "transfer", log)
       \/ /\ tmp' = resp[r]
          /\ log' = Append(log, Entry(r, "write", resp[r]))
          /\ Goto(r, "un_check_hash")
          /\ UNCHANGED res
    /\ resp' = [resp EXCEPT ![r] = Absent]
    /\ UNCHANGED <<kind, target, batch, fs, idx, ncall, prev, hashArg, dirs>>

\* `if hash.is_some() { check_hash(..)? }`
un_check_hash(r) ==
    /\ pc[r] = "un_check_hash"
    /\ LET verdict == check_hash(tmp, hashArg.hash, hashArg.hash_function)
       IN  IF hashArg.some
           THEN \/ FailU(r, "io", log)
                \/ /\ verdict = "ok"
                   /\ Goto(r, "un_unpack")
                   /\ log' = Append(log, Entry(r, "check", tmp))
                   /\ UNCHANGED <<res, tmp>>
                \/ /\ verdict # "ok"
                   /\ FailU(r, verdict, Append(log, Entry(r, "check", tmp)))
           ELSE /\ Goto(r, "un_unpack")
                /\ UNCHANGED <<res, tmp, log>>
    /\ UNCHANGED <<kind, target, batch, fs, idx, resp, ncall, prev, hashArg, dirs>>

\* the extraction of format fmt into the parent directory: the archive is
\* refused, or its members are written in order until one fails or all are out
Unpack(r, fmt) ==
    IF ~IsArchive(tmp)
    THEN /\ FailU(r, "archive", log)
         /\ UNCHANGED fs
    ELSE \E k \in 0..Len(tmp) :
           /\ fs' = Extracted(fs, tmp, k)
           /\ IF k < Len(tmp)
              THEN FailU(r, "io", Append(log, Entry(r, fmt, Prefix(tmp, k))))
              ELSE /\ log' = Append(log, Entry(r, fmt, tmp))
                   /\ res' = [res EXCEPT ![r] = "ok"]
                   /\ Goto(r, "done")
                   /\ tmp' = Absent

\* the dispatch on the locator's extension, the extraction, and the return
\* (which closes the temporary file)
un_unpack(r) ==
    /\ pc[r] = "un_unpack"
    /\ IF EndsWith(arg.url, <<".zip">>) THEN Unpack(r, "unzip")
       ELSE IF EndsWith(arg.url, <<".tar", ".gz">>) THEN Unpack(r, "untar")
       ELSE /\ FailU(r, "unsupported_archive", log)
            /\ UNCHANGED fs
    /\ UNCHANGED <<kind, target, batch, idx, resp, ncall, prev, hashArg, dirs>>

InitUnpack ==
    /\ InitPage
    /\ kind = "unpack"
    /\ target = [os |-> "linux", arch |-> "x86_64"]
    /\ batch \in {b \in Batches : Len(b) = 1}
    /\ fs \in {f \in [Paths("unpack") -> FileStates] :
                 \A a \in Artifacts \ {batch[1]} : f[get_path("unpack", a)] = Absent}
    /\ dirs \in {d \in SUBSET {Parent} :
                   (\E q \in Paths("unpack") : fs[q] # Absent) => Parent \in d}
    /\ pc = [r \in Runs |-> IF r = 1 THEN "un_exists" ELSE "off"]
    /\ idx = [r \in Runs |-> 1]
    /\ resp = [r \in Runs |-> Absent]
    /\ res = [r \in Runs |-> "running"]
    /\ ncall = [r \in Runs |-> IF r = 1 THEN 1 ELSE 0]
    /\ prev = [r \in Runs |-> "none"]
    /\ log = <<>>
    /\ tmp = Absent
    /\ hashArg \in HashArgs(batch[1])
    /\ arg \in {[set |-> TRUE, url |-> u] : u \in Urls}
    /\ out = Unset
    /\ IdleRuntime
    /\ IdleApp

UnpackFrame == UNCHANGED <<pageVars, pureVars, rtVars, appVars>>

NextUnpack ==
    \/ \E r \in Runs : un_exists(r) /\ UnpackFrame
    \/ \E r \in Runs : un_mkdir(r) /\ UnpackFrame
    \/ \E r \in Runs : un_call(r) /\ UnpackFrame
    \/ \E r \in Runs : un_tempfile(r) /\ UnpackFrame
    \/ \E r \in Runs : un_copy(r) /\ UnpackFrame
    \/ \E r \in Runs : un_check_hash(r) /\ UnpackFrame
    \/ \E r \in Runs : un_unpack(r) /\ UnpackFrame

\* one call of download_and_unpack
SpecUnpack == InitUnpack /\ [][NextUnpack]_vars

\* the caller invokes download_and_unpack again with the same url and path
\* (the history keeps the previous Result and starts afresh for the new call)
un_retry(r) ==
    /\ pc[r] = "done"
    /\ ncall[r] < MaxCalls
    /\ ncall' = [ncall EXCEPT ![r] = ncall[r] + 1]
    /\ prev' = [prev EXCEPT ![r] = res[r]]
    /\ res' = [res EXCEPT ![r] = "running"]
    /\ log' = <<>>
    /\ Goto(r, "un_exists")
    /\ UNCHANGED <<kind, target, batch, fs, idx, resp, utilVars, dirs>>

NextUnpackAgain ==
    \/ NextUnpack
    \/ \E r \in Runs : un_retry(r) /\ UnpackFrame

\* repeated calls of download_and_unpack with the same url and path
SpecUnpackAgain == InitUnpack /\ [][NextUnpackAgain]_vars

StartCall == \E b \in Batches : start(b) /\ UNCHANGED <<storeVars, utilVars, sideVars>>

UpdateCall == \E ev \in Progress : update(ev) /\ UNCHANGED <<storeVars, utilVars, sideVars>>

NextPage ==
    \/ StartCall
    \/ UpdateCall

InitDownload == InitPage /\ IdleStore /\ IdleSide

\* the Download page under any sequence of start and update calls
SpecPage == InitDownload /\ [][NextPage]_vars

(***************************************************************************)
(* lib/runtime_manager.rs: list, install, remove and get_java_path         *)
(***************************************************************************)
MaxChunks == 2

\* the java versions asked for
Versions == {8, 18}

\* i32::to_string, as the sequence of decimal digits
RECURSIVE Digits(_)
Digits(n) ==
    IF n < 10 THEN <<HexDigit(n)>> ELSE Digits(n \div 10) \o <<HexDigit(n % 10)>>

\* the top-level directory of the archive of version v: "<release_name>-jre"
DirName(v) == <<"jdk-">> \o Digits(v) \o <<"-jre">>

\* assets.binary.package.name of version v
ArchiveName(v) == <<"OpenJDK">> \o Digits(v) \o <<"U-jre", ".tar", ".gz">>

\* the names an entry of RUNTIMES_DIR can have
Names == {DirName(v) : v \in Versions} \cup {ArchiveName(v) : v \in Versions}

\* a name no install ever creates
NoName == <<"jdk-none">>

\* assets.binary.package.size, as the API reports it
Sizes == 1..MaxChunks

\* the build targets that have an extract_archive that compiles
RuntimeTargets == {t \in Targets : t.os # "windows" /\ t.arch = "x86_64"}

\* entry.path().is_dir()
is_dir(n) == entries[n] \in {"dir", "partial"}

\* the names list() collects from the directory as it is
Installed == {n \in Names : is_dir(n)}

IdleInst == [pc |-> "idle", v |-> 0, size |-> 0, downloaded |-> 0, steps |-> <<>>]

\* the record of a call that returned: its argument, its Result and, for
\* Ok, the value
Ret(op, a, r, val) == [set |-> TRUE, op |-> op, arg |-> a, res |-> r, val |-> val]

\* the sub-path of the java executable under a runtime directory
JavaSubPath(t) ==
    IF t.os = "macos" THEN <<"Contents", "Home", "bin", "java">> ELSE <<"bin", "java">>

\* a list that returns every entry of the directory, plain files too
list_all_entries ==
    /\ inst.pc = "idle"
    /\ \/ /\ rtdir' \in {rtdir, TRUE}
          /\ rtLast' = Ret("list", <<>>, "io", {})
       \/ /\ rtdir' = TRUE
          /\ rtLast' = Ret("list", <<>>, "ok", {n \in Names : entries[n] # "none"})
    /\ UNCHANGED <<entries, ui, inst>>

\* list: create_dir_all(RUNTIMES_DIR), read_dir, and the names of the
\* entries that are directories; either call can fail
list ==
    /\ inst.pc = "idle"
    /\ \/ /\ rtdir' \in {rtdir, TRUE}
          /\ rtLast' = Ret("list", <<>>, "io", {})
       \/ /\ rtdir' = TRUE
          /\ rtLast' = Ret("list", <<>>, "ok", Installed)
    /\ UNCHANGED <<entries, ui, inst>>

\* a remove that deletes the whole runtimes directory
remove_everything(n) ==
    /\ inst.pc = "idle"
    /\ IF rtdir
       THEN /\ entries' = [m \in Names |-> "none"]
            /\ rtLast' = Ret("remove", n, "ok", {})
       ELSE /\ rtLast' = Ret("remove", n, "io", {})
            /\ UNCHANGED entries
    /\ UNCHANGED <<rtdir, ui, inst>>

\* remove: fs::remove_dir_all(RUNTIMES_DIR.join(runtime)); it fails on a
\* name that is absent or a plain file, and can fail half-way
remove(n) ==
    /\ inst.pc = "idle"
    /\ IF n \in Names /\ is_dir(n)
       THEN \/ /\ entries' = [entries EXCEPT ![n] = "none"]
               /\ rtLast' = Ret("remove", n, "ok", {})
            \/ /\ entries' \in {entries, [entries EXCEPT ![n] = "partial"]}
               /\ rtLast' = Ret("remove", n, "io", {})
       ELSE /\ rtLast' = Ret("remove", n, "io", {})
            /\ UNCHANGED entries
    /\ UNCHANGED <<rtdir, ui, inst>>

\* get_java_path: read_dir(RUNTIMES_DIR) without creating it, the first
\* entry whose file name contains the version text, in the order read_dir
\* happens to yield the entries
get_java_path(v) ==
    /\ inst.pc = "idle"
    /\ LET M == {n \in Names : entries[n] # "none" /\ Contains(n, Digits(v))}
       IN  IF ~rtdir THEN rtLast' = Ret("get_java_path", v, "io", <<>>)
           ELSE \/ rtLast' = Ret("get_java_path", v, "io", <<>>)
                \/ /\ M = {}
                   /\ rtLast' = Ret("get_java_path", v, "no_runtime", <<>>)
                \/ \E n \in M :
                      rtLast' = Ret("get_java_path", v, "ok",
                                    [under |-> n, sub |-> JavaSubPath(target)])
    /\ UNCHANGED <<rtdir, entries, ui, inst>>

\* the `?` operator in install: the call returns Err(why) where it stands
InstFail(why) ==
    /\ rtLast' = Ret("install", inst.v, why, inst.steps)
    /\ inst' = IdleInst

\* entry of install: the first idle callback
install(v) ==
    /\ inst.pc = "idle"
    /\ ui' = [ui EXCEPT !.progress = [num |-> 0, den |-> 1], !.view = "Progress"]
    /\ inst' = [IdleInst EXCEPT !.pc = "assets", !.v = v]
    /\ UNCHANGED <<rtdir, entries, rtLast>>

\* get_assets_info: the request or the JSON decoding fails, the list is
\* empty (pop().unwrap() panics), or its last element is the package
get_assets_info ==
    /\ inst.pc = "assets"
    /\ \/ InstFail("transfer")
       \/ InstFail("parse")
       \/ InstFail("panic")
       \/ /\ \E sz \in Sizes :
               inst' = [inst EXCEPT !.pc = "create", !.size = sz,
                                    !.steps = Append(@, "resolve")]
          /\ UNCHANGED rtLast
    /\ UNCHANGED <<rtdir, entries, ui>>

\* HTTP_CLIENT.get(link).send() and File::create(&download_path), which
\* needs the runtimes directory to exist
install_create ==
    /\ inst.pc = "create"
    /\ \/ /\ InstFail("transfer")
          /\ UNCHANGED entries
       \/ /\ InstFail("io")
          /\ UNCHANGED entries
       \/ /\ rtdir
          /\ entries' = [entries EXCEPT ![ArchiveName(inst.v)] = "file"]
          /\ inst' = [inst EXCEPT !.pc = "chunk", !.steps = Append(@, "download")]
          /\ UNCHANGED rtLast
    /\ UNCHANGED <<rtdir, ui>>

\* one turn of the chunk loop: the stream fails, a chunk is written
\* (write_all(..).unwrap() panics when the write fails) and the progress
\* reported, or the stream ends and the Loading view is shown
install_chunk ==
    /\ inst.pc = "chunk"
    /\ \/ /\ InstFail("transfer")
          /\ UNCHANGED ui
       \/ /\ inst.downloaded < MaxChunks
          /\ \/ /\ InstFail("panic")
                /\ UNCHANGED ui
             \/ /\ inst' = [inst EXCEPT !.downloaded = @ + 1]
                /\ ui' = [ui EXCEPT !.progress = [num |-> inst.downloaded + 1,
                                                  den |-> inst.size]]
                /\ UNCHANGED rtLast
       \/ /\ inst' = [inst EXCEPT !.pc = "extract"]
          /\ ui' = [ui EXCEPT !.view = "Loading"]
          /\ UNCHANGED rtLast
    /\ UNCHANGED <<rtdir, entries>>

\* extract_archive (the build for targets other than windows): the archive
\* cannot be read, the unpacking stops half-way, or the runtime directory
\* is unpacked
extract_archive ==
    /\ inst.pc = "extract"
    /\ \/ /\ InstFail("io")
          /\ entries' \in {entries, [entries EXCEPT ![DirName(inst.v)] = "partial"]}
       \/ /\ entries' = [entries EXCEPT ![DirName(inst.v)] = "dir"]
          /\ inst' = [inst EXCEPT !.pc = "remove_file", !.steps = Append(@, "extract")]
          /\ UNCHANGED rtLast
    /\ UNCHANGED <<rtdir, ui>>

\* an install that leaves the downloaded archive in place
install_keep_archive ==
    /\ inst.pc = "remove_file"
    /\ inst' = [inst EXCEPT !.pc = "list", !.steps = Append(@, "delete")]
    /\ UNCHANGED <<rtdir, entries, ui, rtLast>>

\* fs::remove_file(download_path)
install_remove_file ==
    /\ inst.pc = "remove_file"
    /\ \/ /\ InstFail("io")
          /\ UNCHANGED entries
       \/ /\ entries' = [entries EXCEPT ![ArchiveName(inst.v)] = "none"]
          /\ inst' = [inst EXCEPT !.pc = "list", !.steps = Append(@, "delete")]
          /\ UNCHANGED rtLast
    /\ UNCHANGED <<rtdir, ui>>

\* `let runtimes = list().await?`, the last idle callback and Ok(())
install_list ==
    /\ inst.pc = "list"
    /\ \/ /\ InstFail("io")
          /\ UNCHANGED ui
       \/ /\ ui' = [ui EXCEPT !.installed = Installed, !.view = "Runtimes"]
          /\ rtLast' = Ret("install", inst.v, "ok", Append(inst.steps, "list"))
          /\ inst' = IdleInst
    /\ UNCHANGED <<rtdir, entries>>

\* the launcher started on a machine without a runtimes directory
InitRuntime ==
    /\ InitPage
    /\ kind = "objects"
    /\ target \in RuntimeTargets
    /\ batch = <<>>
    /\ fs = [p \in Paths("objects") |-> Absent]
    /\ pc = [r \in Runs |-> "off"]
    /\ idx = [r \in Runs |-> 0]
    /\ resp = [r \in Runs |-> Absent]
    /\ res = [r \in Runs |-> "running"]
    /\ ncall = [r \in Runs |-> 0]
    /\ prev = [r \in Runs |-> "none"]
    /\ log = <<>>
    /\ tmp = Absent
    /\ hashArg = [some |-> FALSE]
    /\ arg = Unset
    /\ out = Unset
    /\ IdleDisk
    /\ IdleApp
    /\ rtdir = FALSE
    /\ entries = [n \in Names |-> "none"]
    /\ ui = [view |-> "Runtimes", progress |-> [num |-> 0, den |-> 1], installed |-> {}]
    /\ inst = IdleInst
    /\ rtLast = Unset

RuntimeFrame == UNCHANGED <<pageVars, storeVars, utilVars, pureVars, diskVars, appVars>>

NextRuntime ==
    \/ list /\ RuntimeFrame
    \/ \E n \in Names \cup {NoName} : remove(n) /\ RuntimeFrame
    \/ \E v \in Versions : get_java_path(v) /\ RuntimeFrame
    \/ \E v \in Versions : install(v) /\ RuntimeFrame
    \/ get_assets_info /\ RuntimeFrame
    \/ install_create /\ RuntimeFrame
    \/ install_chunk /\ RuntimeFrame
    \/ extract_archive /\ RuntimeFrame
    \/ install_remove_file /\ RuntimeFrame
    \/ install_list /\ RuntimeFrame

\* any sequence of calls of the runtime manager, one after the other
SpecRuntime == InitRuntime /\ [][NextRuntime]_vars
(***************************************************************************)
(* lib/minecraft_libraries.rs: Library::is_valid as a function of its      *)
(* inputs                                                                  *)
(***************************************************************************)
MaxRules == 2

\* the classifiers a library path can carry after the artifact name
Classifiers ==
    {<<>>, <<"natives", "-linux">>, <<"natives", "-linux", "-arm64">>,
     <<"natives", "-macos">>, <<"natives", "-macos", "-arm64">>,
     <<"natives", "-windows">>, <<"natives", "-windows", "-arm64">>,
     <<"natives", "-windows", "-x86">>}

\* the architecture tokens a library path can carry
ArchTokens == {<<>>, <<"x86_64">>, <<"aarch_64">>}

\* downloads.artifact.path of a library with classifier cls and token tok
ArtifactPath(cls, tok) == <<"org", "lwjgl">> \o tok \o cls \o <<".jar">>

Rules == [action : {"allow", "disallow"}, os : {"any", "linux", "macos"},
          arch : {"any", "arm"}]

\* the values of downloads.rules: None, or Some list of rules
RuleOptions ==
    {[some |-> FALSE, rules |-> <<>>]}
    \cup {[some |-> TRUE, rules |-> l] : l \in SeqsUpTo(Rules, MaxRules)}

\* the platforms a rule list is evaluated on
RulePlatforms == Targets \cup {[os |-> "linux", arch |-> "arm"]}

\* a library (classifier, token, path and rules) on a platform
ValidInput(t, c, k, r) ==
    [set |-> TRUE, plat |-> t, cls |-> c, tok |-> k,
     path |-> ArtifactPath(c, k), rules |-> r]

\* a call of Library::is_valid on a build of one of the four targets
is_valid_call ==
    /\ out = Unset
    /\ arg.plat \in Targets
    /\ out' = [set |-> TRUE, fn |-> "is_valid",
               artifact |-> Artifact_is_valid(arg.path, arg.plat),
               library |-> is_valid(arg.path, arg.rules, arg.plat)]
    /\ PureFrame

\* a call of is_rule_list_valid on the rules of a library that has some
rule_list_call ==
    /\ out = Unset
    /\ arg.rules.some
    /\ out' = [set |-> TRUE, fn |-> "is_rule_list_valid",
               rules |-> is_rule_list_valid(arg.rules.rules, arg.plat)]
    /\ PureFrame

InitValid ==
    /\ InitPage
    /\ IdleStore
    /\ IdleDisk
    /\ IdleRuntime
    /\ IdleApp
    /\ arg \in {ValidInput(t, c, k, r) :
                    t \in RulePlatforms, c \in Classifiers, k \in ArchTokens,
                    r \in RuleOptions}
    /\ out = Unset

NextValid ==
    \/ is_valid_call
    \/ rule_list_call

\* Library::is_valid and the rule evaluator applied to any library
SpecValid == InitValid /\ [][NextValid]_vars

(***************************************************************************)
(* lib/minecraft_assets.rs: Object::get_path and Object::get_url as        *)
(* functions of the hash                                                   *)
(***************************************************************************)
MaxDigest == 3

DigestChars == {"0", "1", "a", "b"}

\* the values of Object.hash: non-empty strings of hex characters
Digests == SeqsUpTo(DigestChars, MaxDigest) \ {<<>>}

\* &self.hash[..2] panics when the hash is shorter than two bytes
Sliceable(hash) == Len(hash) >= 2

\* two objects of an asset index
ShardInput(x, y) == [set |-> TRUE, d1 |-> x, d2 |-> y]

\* Object::get_path called on the two objects
get_path_call ==
    /\ out = Unset
    /\ out' = IF Sliceable(arg.d1) /\ Sliceable(arg.d2)
              THEN [set |-> TRUE, fn |-> "get_path", panic |-> FALSE,
                    v1 |-> Object_get_path(arg.d1), v2 |-> Object_get_path(arg.d2)]
              ELSE [set |-> TRUE, fn |-> "get_path", panic |-> TRUE]
    /\ PureFrame

\* Object::get_url called on the two objects
get_url_call ==
    /\ out = Unset
    /\ out' = IF Sliceable(arg.d1) /\ Sliceable(arg.d2)
              THEN [set |-> TRUE, fn |-> "get_url", panic |-> FALSE,
                    v1 |-> Object_get_url(arg.d1), v2 |-> Object_get_url(arg.d2)]
              ELSE [set |-> TRUE, fn |-> "get_url", panic |-> TRUE]
    /\ PureFrame

InitShard ==
    /\ InitPage
    /\ IdleStore
    /\ IdleDisk
    /\ IdleRuntime
    /\ IdleApp
    /\ arg \in {ShardInput(x, y) : x, y \in Digests}
    /\ out = Unset

NextShard ==
    \/ get_path_call
    \/ get_url_call

\* the derived path and URL of any two asset objects
SpecShard == InitShard /\ [][NextShard]_vars

(***************************************************************************)
(* util/mod.rs: check_hash as a function of the bytes read, the expected   *)
(* digest and the algorithm tag                                            *)
(***************************************************************************)
\* the values of hash_function a caller can pass
HashTags == HashFunctions \cup {"SHA1", ""}

\* the values of hash: the digests of the contents, and the empty string
ExpectedHashes ==
    {calc_hash(fn, c) : fn \in {"sha1", "sha256"}, c \in Contents} \cup {<<>>}

\* the bytes the reader yields, the expected digest and the tag
HashInput(c, h, t) == [set |-> TRUE, c |-> c, hash |-> h, tag |-> t]

\* a call of check_hash; with a tag it knows it reads the bytes, and the read
\* can fail
check_hash_call ==
    /\ out = Unset
    /\ \/ /\ arg.tag \in {"sha1", "sha256"}
          /\ out' = [set |-> TRUE, fn |-> "check_hash", res |-> "io"]
       \/ out' = [set |-> TRUE, fn |-> "check_hash",
                  res |-> check_hash(arg.c, arg.hash, arg.tag)]
    /\ PureFrame

InitHash ==
    /\ InitPage
    /\ IdleStore
    /\ IdleDisk
    /\ IdleRuntime
    /\ IdleApp
    /\ arg \in {HashInput(c, h, t) : c \in Contents, h \in ExpectedHashes, t \in HashTags}
    /\ out = Unset

NextHash == check_hash_call

\* check_hash applied to any bytes, expected digest and tag
SpecHash == InitHash /\ [][NextHash]_vars

(***************************************************************************)
(* lib/accounts.rs: the accounts document and get_active, set_active, add  *)
(* and remove                                                              *)
(***************************************************************************)
MaxAccounts == 2

\* the Minecraft profile ids an account can carry
McIds == {"m1", "m2"}

\* read(): the parsed document; a missing file is first written with the
\* default (empty) document
AfterRead == [exists |-> TRUE, accounts |-> document.accounts]

\* the record of a call that returned: the mc_id it was given, its Result,
\* the stored accounts when it took effect and, for Ok, the value
AcRet(op, id, r, before, val) ==
    [set |-> TRUE, op |-> op, arg |-> id, res |-> r, before |-> before, val |-> val]

\* the loop of set_active: is_active = (mc_id == account.mc_id) on every
\* account
Activate(accs, id) ==
    [i \in 1..Len(accs) |-> [accs[i] EXCEPT !.is_active = (accs[i].mc_id = id)]]

\* msa::listen_login_callback: the account of the user who logged in
LoginAccounts == {[mc_id |-> id, is_active |-> FALSE] : id \in McIds}

\* get_active: read, then the first account of the document that is active
\* (Some), or None
accounts_get_active ==
    /\ \/ /\ acLast' = AcRet("get_active", "", "io", document.accounts, <<>>)
          /\ UNCHANGED document
       \/ LET accs == document.accounts
              I == {i \in 1..Len(accs) : accs[i].is_active}
              first == IF I = {} THEN <<>>
                       ELSE <<accs[CHOOSE i \in I : \A j \in I : i <= j]>>
          IN  /\ acLast' = AcRet("get_active", "", "ok", accs, first)
              /\ document' = AfterRead
    /\ UNCHANGED <<adding, data>>

\* a set_active that marks the chosen account and leaves the others as
\* they are
accounts_set_active_additive(account) ==
    /\ \/ /\ acLast' = AcRet("set_active", account.mc_id, "io", document.accounts, <<>>)
          /\ document' \in {document, AfterRead}
          /\ UNCHANGED data
       \/ LET accs == [i \in 1..Len(document.accounts) |->
                         IF document.accounts[i].mc_id = account.mc_id
                         THEN [document.accounts[i] EXCEPT !.is_active = TRUE]
                         ELSE document.accounts[i]]
          IN  /\ document' = [exists |-> TRUE, accounts |-> accs]
              /\ data' = [data EXCEPT !.accounts = accs, !.active_account = <<account>>]
              /\ acLast' = AcRet("set_active", account.mc_id, "ok", document.accounts, <<>>)
    /\ UNCHANGED adding

\* set_active: read, the loop, write, and the idle callback; read or write
\* can fail
accounts_set_active(account) ==
    /\ \/ /\ acLast' = AcRet("set_active", account.mc_id, "io", document.accounts, <<>>)
          /\ document' \in {document, AfterRead}
          /\ UNCHANGED data
       \/ LET accs == Activate(document.accounts, account.mc_id)
          IN  /\ document' = [exists |-> TRUE, accounts |-> accs]
              /\ data' = [data EXCEPT !.accounts = accs, !.active_account = <<account>>]
              /\ acLast' = AcRet("set_active", account.mc_id, "ok", document.accounts, <<>>)
    /\ UNCHANGED adding

\* remove: read_to_string of the file as it is (no default is written),
\* retain, write, and the idle callback
accounts_remove(account) ==
    /\ IF ~document.exists
       THEN /\ acLast' = AcRet("remove", account.mc_id, "io", document.accounts, <<>>)
            /\ UNCHANGED <<document, data>>
       ELSE \/ /\ acLast' = AcRet("remove", account.mc_id, "io", document.accounts, <<>>)
               /\ UNCHANGED <<document, data>>
            \/ LET accs == SelectSeq(document.accounts,
                                     LAMBDA a : a.mc_id # account.mc_id)
               IN  /\ document' = [exists |-> TRUE, accounts |-> accs]
                   /\ data' = [data EXCEPT !.accounts = accs]
                   /\ acLast' = AcRet("remove", account.mc_id, "ok", document.accounts, <<>>)
    /\ UNCHANGED adding

\* add, up to the await of the login callback: the Loading view, the
\* browser is opened and the document is read
accounts_add ==
    /\ adding.pc = "idle"
    /\ Len(document.accounts) < MaxAccounts
    /\ data' = [data EXCEPT !.current_view = "Loading"]
    /\ \/ /\ acLast' = AcRet("add", "", "io", document.accounts, <<>>)
          /\ UNCHANGED <<document, adding>>
       \/ /\ document' = AfterRead
          /\ adding' = [pc |-> "waiting", document |-> document.accounts]
          /\ UNCHANGED acLast

\* add, from the login callback on: the account is pushed onto the document
\* read before the wait, which is written, and the idle callback
listen_login_callback ==
    /\ adding.pc = "waiting"
    /\ adding' = [pc |-> "idle", document |-> <<>>]
    /\ \/ /\ acLast' = AcRet("add", "", "login", document.accounts, <<>>)
          /\ UNCHANGED <<document, data>>
       \/ \E account \in LoginAccounts :
             \/ /\ acLast' = AcRet("add", account.mc_id, "io", document.accounts, <<>>)
                /\ UNCHANGED <<document, data>>
             \/ LET accs == Append(adding.document, account)
                IN  /\ document' = [exists |-> TRUE, accounts |-> accs]
                    /\ data' = [data EXCEPT !.accounts = accs, !.current_view = "Accounts"]
                    /\ acLast' = AcRet("add", account.mc_id, "ok", document.accounts,
                                       <<account>>)

InitAccounts ==
    /\ InitPage
    /\ IdleStore
    /\ arg = Unset
    /\ out = Unset
    /\ IdleDisk
    /\ IdleRuntime
    /\ document = [exists |-> FALSE, accounts |-> <<>>]
    /\ adding = [pc |-> "idle", document |-> <<>>]
    /\ data = [current_view |-> "Accounts", accounts |-> <<>>, active_account |-> <<>>]
    /\ acLast = Unset
    /\ current_view = "Instances"
    /\ new_vanilla_instance = Unset
    /\ lastMsg = Unset

\* what the accounts functions and the message handlers leave alone
AppFrame == UNCHANGED <<storeVars, utilVars, pureVars, diskVars, rtVars>>

NextAccounts ==
    \/ accounts_get_active /\ AppFrame /\ UNCHANGED <<pageVars, navVars>>
    \/ \E account \in LoginAccounts :
          accounts_set_active(account) /\ AppFrame /\ UNCHANGED <<pageVars, navVars>>
    \/ \E account \in LoginAccounts :
          accounts_remove(account) /\ AppFrame /\ UNCHANGED <<pageVars, navVars>>
    \/ accounts_add /\ AppFrame /\ UNCHANGED <<pageVars, navVars>>
    \/ listen_login_callback /\ AppFrame /\ UNCHANGED <<pageVars, navVars>>

\* any sequence of calls of the accounts functions; set_active, remove and
\* get_active also run while an add waits for the login
SpecAccounts == InitAccounts /\ [][NextAccounts]_vars

(***************************************************************************)
(* main.rs: the messages of IceLauncher::update that create an instance    *)
(* and follow its download                                                 *)
(***************************************************************************)
\* Message::ViewChanged, from the buttons of the side bar
ViewChanged(view) ==
    /\ lastMsg.alert # "panic"
    /\ current_view' = view
    /\ lastMsg' = [set |-> TRUE, msg |-> "ViewChanged", alert |-> "none"]
    /\ UNCHANGED <<new_vanilla_instance, pageVars>>

\* Message::NewInstanceNameChanged
NewInstanceNameChanged(name) ==
    /\ lastMsg.alert # "panic"
    /\ new_vanilla_instance' = [new_vanilla_instance EXCEPT !.name = name]
    /\ lastMsg' = [set |-> TRUE, msg |-> "NewInstanceNameChanged", alert |-> "none"]
    /\ UNCHANGED <<current_view, pageVars>>

\* Message::VersionSelected
VersionSelected(version) ==
    /\ lastMsg.alert # "panic"
    /\ new_vanilla_instance' =
          [new_vanilla_instance EXCEPT !.selected_version = <<version>>]
    /\ lastMsg' = [set |-> TRUE, msg |-> "VersionSelected", alert |-> "none"]
    /\ UNCHANGED <<current_view, pageVars>>

\* a CreateInstance that does not look at the form
CreateInstance_unchecked ==
    /\ lastMsg.alert # "panic"
    /\ \/ /\ current_view' = "Loading"
          /\ lastMsg' = [set |-> TRUE, msg |-> "CreateInstance", alert |-> "panic"]
          /\ UNCHANGED pageVars
       \/ \E download_items \in Batches :
             /\ current_view' = "Download"
             /\ start(download_items)
             /\ lastMsg' = [set |-> TRUE, msg |-> "CreateInstance", alert |-> "none"]
    /\ UNCHANGED new_vanilla_instance

\* Message::CreateInstance: the two checks of the form, each with its error
\* dialog and an early return; then the Loading view, instances::new
\* (unwrap: a failure panics), the Download view and Download::start
CreateInstance ==
    /\ lastMsg.alert # "panic"
    /\ IF new_vanilla_instance.name = ""
       THEN /\ lastMsg' = [set |-> TRUE, msg |-> "CreateInstance", alert |-> "name"]
            /\ UNCHANGED <<current_view, pageVars>>
       ELSE IF new_vanilla_instance.selected_version = <<>>
       THEN /\ lastMsg' = [set |-> TRUE, msg |-> "CreateInstance", alert |-> "version"]
            /\ UNCHANGED <<current_view, pageVars>>
       ELSE \/ /\ current_view' = "Loading"
               /\ lastMsg' = [set |-> TRUE, msg |-> "CreateInstance", alert |-> "panic"]
               /\ UNCHANGED pageVars
            \/ \E download_items \in Batches :
                  /\ current_view' = "Download"
                  /\ start(download_items)
                  /\ lastMsg' = [set |-> TRUE, msg |-> "CreateInstance", alert |-> "none"]
    /\ UNCHANGED new_vanilla_instance

\* Message::DownloadEvent: Finished shows the Instances view; every event is
\* handed to Download::update
DownloadEvent(event) ==
    /\ lastMsg.alert # "panic"
    /\ current_view' = IF event.tag = "Finished" THEN "Instances" ELSE current_view
    /\ update(event)
    /\ lastMsg' = [set |-> TRUE, msg |-> "DownloadEvent", alert |-> "none"]
    /\ UNCHANGED new_vanilla_instance

\* IceLauncher::new
InitApp ==
    /\ InitPage
    /\ IdleStore
    /\ arg = Unset
    /\ out = Unset
    /\ IdleDisk
    /\ IdleRuntime
    /\ document = Unset
    /\ adding = Unset
    /\ data = Unset
    /\ acLast = Unset
    /\ current_view = "Instances"
    /\ new_vanilla_instance = [name |-> "", selected_version |-> <<>>]
    /\ lastMsg = [set |-> TRUE, msg |-> "new", alert |-> "none"]

NextApp ==
    \/ \E view \in {"Instances", "Accounts", "NewVanillaInstance"} :
          ViewChanged(view) /\ AppFrame /\ UNCHANGED acVars
    \/ \E name \in {"", "n"} :
          NewInstanceNameChanged(name) /\ AppFrame /\ UNCHANGED acVars
    \/ VersionSelected("1.19") /\ AppFrame /\ UNCHANGED acVars
    \/ CreateInstance /\ AppFrame /\ UNCHANGED acVars
    \/ \E event \in Progress : DownloadEvent(event) /\ AppFrame /\ UNCHANGED acVars

\* any sequence of these messages
SpecApp == InitApp /\ [][NextApp]_vars

(***************************************************************************)
(* Properties                                                              *)
(***************************************************************************)
Errors == {"io", "transfer", "mismatch", "parse"}

\* positions of the log where run r did operation op on item i
Ops(r, i, op) ==
    {j \in 1..Len(log) : log[j].run = r /\ log[j].i = i /\ log[j].op = op}

Count(r, i, op) == Cardinality(Ops(r, i, op))

PathOf(i) == get_path(kind, batch[i])

\* a local file is valid iff it exists and its digest is the expected one
Valid(c, a) == c # Absent /\ Sha1(c) = ExpectedSha1(a)

Corrupt(c, a) == c # Absent /\ Sha1(c) # ExpectedSha1(a)

\* the content item i of run r had when its iteration began
Pre(r, i) == log[CHOOSE j \in Ops(r, i, "begin") : TRUE].c

\* C1: start called in Idle, Finished or Errored moves the page to
\* Downloading with progress 0 and the given batch as items; called while
\* Downloading it changes neither the state, the progress nor the items.
C1_StartEffect ==
    [][lastCall'.op = "start" =>
         IF state \in {"Idle", "Finished", "Errored"}
         THEN state' = "Downloading" /\ progress' = 0 /\ items' = lastCall'.items
         ELSE state' = state /\ progress' = progress /\ items' = items]_vars

\* a start with another batch arrived while a batch was running half-way
C1_Witness ==
    /\ state = "Downloading"
    /\ lastCall.op = "start"
    /\ lastCall.items # items
    /\ progress = 50

\* C2: in Finished, Errored and Idle no progress event changes the page, and
\* the only step that leaves a terminal state is a start call.
C2_TerminalStable ==
    [][/\ (state \in Terminal \cup {"Idle"} /\ lastCall'.op = "update") =>
              (state' = state /\ progress' = progress /\ items' = items)
       /\ (state \in Terminal /\ state' # state) => lastCall'.op = "start"]_vars

\* an Advanced event was delivered to a page that is Finished
C2_Witness ==
    /\ state = "Finished"
    /\ lastCall.op = "update"
    /\ lastCall.event.tag = "Advanced"

\* C3: when an item of a batch fails the call returns the error at once:
\* the failure is the last operation of the run, no operation was done on a
\* later item, and the files of the items completed before are as they
\* were when they completed.
C3_FailureHalts ==
    \A r \in Runs :
        res[r] \in Errors =>
            /\ log # <<>>
            /\ log[Len(log)].op = "fail"
            /\ log[Len(log)].run = r
            /\ \A j \in 1..Len(log) : log[j].i <= log[Len(log)].i
            /\ \A j \in 1..Len(log) :
                   log[j].op = "done" => fs[PathOf(log[j].i)] = log[j].c

\* the second of two items failed its final check after the first completed
\* with a fetch
C3_Witness ==
    /\ kind \in {"objects", "libraries"}
    /\ res[1] = "mismatch"
    /\ idx[1] = 2
    /\ Count(1, 1, "fetch") = 1
    /\ Count(1, 1, "done") = 1

\* C4: after a batch run returned success every item has a file at its path
\* whose SHA-1 is the item's expected digest.
C4_SuccessMeansVerified ==
    \A r \in Runs :
        res[r] = "ok" =>
            \A i \in 1..Len(batch) : Valid(fs[PathOf(i)], batch[i])

\* a successful run over one file that was corrupted and one that was missing
C4_Witness ==
    /\ kind \in {"objects", "libraries"}
    /\ res[1] = "ok"
    /\ Len(batch) = 2
    /\ Count(1, 1, "remove") = 1
    /\ Pre(1, 2) = Absent
    /\ Count(1, 2, "fetch") = 1

\* C5: an item whose file exists with the expected digest is neither
\* fetched nor deleted and its file stays as it is; of two successive
\* completed ensures of one descriptor the second fetches nothing and the
\* two together fetch once, or not at all when the file was valid before.
C5_Idempotent ==
    \A r \in Runs :
        /\ \A j \in 1..Len(log) :
              (log[j].run = r /\ log[j].op = "begin" /\ Valid(log[j].c, batch[log[j].i])) =>
                  /\ \A op \in {"fetch", "remove", "create", "write"} :
                         Ops(r, log[j].i, op) = {}
                  /\ fs[PathOf(log[j].i)] = log[j].c
        /\ \A i, i2 \in 1..Len(batch) :
              (i < i2 /\ batch[i] = batch[i2] /\ Ops(r, i2, "done") # {}) =>
                  /\ Count(r, i2, "fetch") = 0
                  /\ Count(r, i, "fetch") + Count(r, i2, "fetch")
                         = (IF Valid(Pre(r, i), batch[i]) THEN 0 ELSE 1)

\* the same descriptor ensured twice: one fetch by the first, none by the
\* second
C5_Witness ==
    /\ Len(batch) = 2
    /\ batch[1] = batch[2]
    /\ res[1] = "ok"
    /\ Count(1, 1, "fetch") = 1
    /\ Count(1, 2, "fetch") = 0
    /\ Valid(Pre(1, 2), batch[2])

\* C6: an ensure never fetches more than once; one that finds a file with a
\* wrong digest and runs to its verdict deleted that file once and fetched
\* once, succeeding iff the fetched content has the expected digest and
\* failing with the mismatch error otherwise, and then leaves the bad
\* content in place, so that a call made after a mismatch starts from a
\* corrupted file again.
C6_CorruptionRecovery ==
    \A r \in Runs : \A i \in 1..Len(batch) :
        /\ Count(r, i, "fetch") <= 1
        /\ (Ops(r, i, "begin") # {} /\ Corrupt(Pre(r, i), batch[i])) =>
              /\ (Ops(r, i, "done") # {} \/ res[r] = "mismatch") =>
                    /\ Count(r, i, "remove") = 1
                    /\ Count(r, i, "fetch") = 1
              /\ Ops(r, i, "done") # {} =>
                    \A j \in Ops(r, i, "fetch") : Sha1(log[j].c) = ExpectedSha1(batch[i])
              /\ res[r] = "mismatch" =>
                    /\ \A j \in Ops(r, i, "fetch") :
                           /\ Sha1(log[j].c) # ExpectedSha1(batch[i])
                           /\ fs[PathOf(i)] = log[j].c
                    /\ Corrupt(fs[PathOf(i)], batch[i])
        /\ (prev[r] = "mismatch" /\ Ops(r, i, "begin") # {}) =>
              Corrupt(Pre(r, i), batch[i])

\* the call after a mismatch deleted the bad file, fetched once and succeeded
C6_Witness ==
    /\ prev[1] = "mismatch"
    /\ res[1] = "ok"
    /\ Count(1, 1, "remove") = 1
    /\ Count(1, 1, "fetch") = 1

\* C9: a fetch that fails in the middle of the transfer leaves no file,
\* empty or partial, at the artifact's final path.
C9_AtomicReplace ==
    \A r \in Runs :
        res[r] = "transfer" => fs[PathOf(idx[r])] = Absent

\* C10: Libraries::download never hash-checks, deletes or fetches a library
\* for which Library::is_valid is false on the target.
C10_SkipsInapplicable ==
    kind = "libraries" =>
        \A j \in 1..Len(log) :
            log[j].op \in {"check", "remove", "fetch", "create", "write"} =>
                Library_is_valid(batch[log[j].i], target)

\* C7: download_file and download_json called with an expected hash never
\* return success while the file at path has another digest.
C7_ExistingFileVerified ==
    \A r \in Runs :
        (kind \in UtilKinds /\ res[r] = "ok" /\ hashArg.some
            /\ hashArg.hash_function \in {"sha1", "sha256"}) =>
            /\ fs[UPath] # Absent
            /\ calc_hash(hashArg.hash_function, fs[UPath]) = hashArg.hash

\* C8: with no file at the final path before the call, download_file and
\* download_json put a file there only by the rename that ends a call in
\* which every check passed: after a failed transfer, hash check or JSON
\* parse, and at every point before the Ok return, the path is still empty.
C8_RenameAfterChecks ==
    \A r \in Runs :
        (kind \in UtilKinds /\ Ops(r, 1, "begin") # {} /\ Pre(r, 1) = Absent
            /\ res[r] # "ok") =>
            fs[UPath] = Absent

\* download_json fetched a body with the expected hash that is no JSON
C8_Witness ==
    /\ kind = "json"
    /\ res[1] = "parse"
    /\ Pre(1, 1) = Absent
    /\ Count(1, 1, "fetch") = 1
    /\ Count(1, 1, "check") = 1
    /\ fs[UPath] = Absent

\* C11: on each of the four targets, Artifact::is_valid returns false for a
\* path whose natives classifier is that of another platform (also one that
\* extends the local marker, as natives-macos-arm64 does on macos/x86_64),
\* and for a path with an x86_64 or aarch_64 token that is not the running
\* architecture.
C11_RejectsForeignNatives ==
    (out.set /\ out.fn = "is_valid") =>
        /\ (arg.cls # <<>> /\ arg.cls # NATIVES_STRING(arg.plat)) => ~out.artifact
        /\ (arg.tok = <<"x86_64">> /\ arg.plat.arch # "x86_64") => ~out.artifact
        /\ (arg.tok = <<"aarch_64">> /\ arg.plat.arch # "aarch64") => ~out.artifact

\* the rule list of the rule evaluation example
ExampleRules ==
    <<[action |-> "allow", os |-> "linux", arch |-> "any"],
      [action |-> "disallow", os |-> "linux", arch |-> "arm"]>>

\* the action of the last rule of the list that matches t is allow, or none does
LastMatchAllows(rules, t) ==
    LET M == {i \in 1..Len(rules) : RuleMatches(rules[i], t)}
    IN  M = {} \/ rules[CHOOSE i \in M : \A j \in M : j <= i].action = "allow"

\* C12: the rule list result is the action of the last matching rule, allow
\* when there is none; Library::is_valid is the artifact path check and, when
\* the library has rules, the rule list result; the example list is false on
\* linux/arm and the library is applicable on linux/x86_64.
C12_LastMatchWins ==
    /\ (out.set /\ out.fn = "is_rule_list_valid") =>
           /\ out.rules = LastMatchAllows(arg.rules.rules, arg.plat)
           /\ (arg.rules.rules = ExampleRules /\ arg.plat.os = "linux") =>
                  out.rules = (arg.plat.arch = "x86_64")
    /\ (out.set /\ out.fn = "is_valid") =>
           /\ out.library =
                  (out.artifact /\ (arg.rules.some =>
                                       LastMatchAllows(arg.rules.rules, arg.plat)))
           /\ (arg.rules.rules = ExampleRules /\ arg.plat.os = "linux") =>
                  out.library = out.artifact

\* the example rule list was evaluated on linux/arm and disallowed
C12_Witness ==
    /\ out.set
    /\ out.fn = "is_rule_list_valid"
    /\ arg.rules.rules = ExampleRules
    /\ arg.plat = [os |-> "linux", arch |-> "arm"]
    /\ ~out.rules

\* C13: for a digest d of at least two characters the local path is
\* objects/<first two characters of d>/<d> and the URL is the download
\* endpoint followed by <first two characters of d>/<d>; two different
\* digests never get the same path.
C13_Sharding ==
    (out.set /\ out.fn \in {"get_path", "get_url"}
       /\ Len(arg.d1) >= 2 /\ Len(arg.d2) >= 2) =>
        /\ ~out.panic
        /\ out.fn = "get_path" =>
              /\ out.v1 = <<"assets", "objects", <<arg.d1[1], arg.d1[2]>>, arg.d1>>
              /\ out.v1[Len(out.v1) - 1] = <<arg.d1[1], arg.d1[2]>>
              /\ arg.d1 # arg.d2 => out.v1 # out.v2
        /\ out.fn = "get_url" =>
              /\ out.v1.host = "resources.download.minecraft.net"
              /\ out.v1.path = << <<arg.d1[1], arg.d1[2]>>, arg.d1 >>
              /\ arg.d1 # arg.d2 => out.v1 # out.v2

\* the path of two different digests that share their shard was derived
C13_Witness ==
    /\ out.set
    /\ out.fn = "get_path"
    /\ ~out.panic
    /\ arg.d1 # arg.d2
    /\ out.v1[3] = out.v2[3]
    /\ Len(arg.d1) > 2

\* C14: download_and_unpack unpacks a locator ending in .zip as ZIP and one
\* ending in .tar.gz as gzip+tar; for any other extension it fails with the
\* unsupported-archive-format error without having created the parent
\* directory, fetched, or written any file.
C14_DispatchBeforeEffects ==
    \A j \in 1..Len(log) :
        /\ log[j].op = "unzip" => EndsWith(arg.url, <<".zip">>)
        /\ log[j].op = "untar" => EndsWith(arg.url, <<".tar", ".gz">>)
        /\ (log[j].op = "fail" /\ log[j].c = <<"unsupported_archive">>) =>
              /\ ~EndsWith(arg.url, <<".zip">>)
              /\ ~EndsWith(arg.url, <<".tar", ".gz">>)
              /\ \A i \in 1..j : log[i].op \notin {"mkdir", "fetch", "write"}

\* the progress updates emitted so far, in order
Updates == SelectSeq(log, LAMBDA e : e.op = "progress")

\* C15: download_objects resets the progress to 0 first; the k-th update
\* after that carries k/n for the n items of the batch; a run that succeeds
\* has emitted exactly n updates, a run that failed at item i exactly i-1,
\* and none follows the failure.
C15_ProgressOrdering ==
    kind = "objects" =>
        LET U == Updates
        IN  /\ log # <<>> => log[1].op = "reset"
            /\ \A j \in 2..Len(log) : log[j].op # "reset"
            /\ \A k \in 1..Len(U) : U[k].k = k /\ U[k].n = Len(batch)
            /\ res[1] = "ok" => Len(U) = Len(batch)
            /\ res[1] \in Errors =>
                  /\ Len(U) = idx[1] - 1
                  /\ log[Len(log)].op = "fail"

\* a batch of two objects has succeeded: the updates were 1/2 and 2/2
C15_Witness ==
    /\ kind = "objects"
    /\ res[1] = "ok"
    /\ Len(batch) = 2
    /\ Len(Updates) = 2

\* the steps of an iteration that read, delete, fetch or write the file
StepOps == {"check", "remove", "fetch", "create", "write"}

\* C16: the operations of a batch run are done item by item in the order of
\* the batch: a step of item i directly follows the begin or another step
\* of item i, the iteration of item i+1 begins directly after item i was
\* completed, and the progress updates are emitted in the order of the
\* items.
C16_OneAtATime ==
    kind \in {"objects", "libraries"} =>
        \A j \in 2..Len(log) :
            /\ log[j - 1].i <= log[j].i
            /\ log[j].op \in StepOps =>
                  /\ log[j - 1].i = log[j].i
                  /\ log[j - 1].op \in StepOps \cup {"begin"}
            /\ (log[j].op = "begin" /\ log[j].i > 1) =>
                  /\ log[j - 1].i = log[j].i - 1
                  /\ log[j - 1].op \in {"done", "progress"}
            /\ log[j].op = "progress" =>
                  /\ log[j - 1].op = "done"
                  /\ log[j].k = log[j].i

\* the second item of a batch was fetched after the first one was completed
C16_Witness ==
    /\ kind \in {"objects", "libraries"}
    /\ Count(1, 1, "done") = 1
    /\ Count(1, 1, "fetch") = 1
    /\ Count(1, 2, "fetch") = 1

\* the entries of the runtimes directory that are directories
DirsPresent == {n \in Names : entries[n] \notin {"none", "file"}}

\* C17: install resolves the package, downloads the archive into the
\* runtimes directory, extracts it, deletes the archive and recomputes the
\* list, in this order; when it has returned Ok the archive is gone and the
\* list given to the UI is the set of directories present.
C17_InstallOrder ==
    (rtLast.set /\ rtLast.op = "install" /\ rtLast.res = "ok" /\ inst.pc = "idle") =>
        /\ rtLast.val = <<"resolve", "download", "extract", "delete", "list">>
        /\ entries[ArchiveName(rtLast.arg)] = "none"
        /\ entries[DirName(rtLast.arg)] = "dir"
        /\ ui.installed = DirsPresent
        /\ ui.view = "Runtimes"

\* a second runtime was installed next to the first, with the archive of an
\* earlier failed install still in the directory
C17_Witness ==
    /\ rtLast.set
    /\ rtLast.op = "install"
    /\ rtLast.res = "ok"
    /\ inst.pc = "idle"
    /\ Cardinality(ui.installed) = 2
    /\ \E v \in Versions : entries[ArchiveName(v)] = "file"

\* C18: get_java_path(v) fails with the no-runtime-found error exactly when
\* no directory of the runtimes directory has a name containing the decimal
\* text of v, also when the runtimes directory does not exist; otherwise it
\* returns the java executable sub-path under such a directory.  (An I/O
\* error while an existing directory is read is left aside.)
C18_NoRuntimeFound ==
    (rtLast.set /\ rtLast.op = "get_java_path" /\ inst.pc = "idle") =>
        LET D == {n \in DirsPresent : Contains(n, Digits(rtLast.arg))}
        IN  /\ ~rtdir => rtLast.res = "no_runtime"
            /\ (rtdir /\ rtLast.res # "io") =>
                  /\ rtLast.res = "no_runtime" <=> D = {}
                  /\ rtLast.res = "ok" =>
                        /\ rtLast.val.under \in D
                        /\ rtLast.val.sub = JavaSubPath(target)

\* C19: list returns exactly the names of the entries of the runtimes
\* directory that are directories, whatever installs and removes came
\* before, never a plain file; it creates a missing runtimes directory,
\* which yields the empty list.
C19_ListIsCurrent ==
    (rtLast.set /\ rtLast.op = "list" /\ rtLast.res = "ok" /\ inst.pc = "idle") =>
        /\ rtdir
        /\ rtLast.val = DirsPresent
        /\ \A n \in rtLast.val : entries[n] # "file"

\* list was called with a runtime installed and the archive of a failed
\* install lying next to it
C19_Witness ==
    /\ rtLast.set
    /\ rtLast.op = "list"
    /\ rtLast.res = "ok"
    /\ inst.pc = "idle"
    /\ rtLast.val # {}
    /\ \E v \in Versions : entries[ArchiveName(v)] = "file"

C21_CheckHash ==
    (out.set /\ out.fn = "check_hash") =>
        LET known == arg.tag \in {"sha1", "sha256"}
            digest == IF arg.tag = "sha1" THEN Sha1(arg.c) ELSE Sha256(arg.c)
        IN  /\ ~known => out.res = "unsupported"
            /\ out.res = "ok" => (known /\ digest = arg.hash)
            /\ (known /\ out.res # "io") =>
                  out.res = (IF digest = arg.hash THEN "ok" ELSE "mismatch")
            /\ tmp = Absent
            /\ dirs = {}
            /\ \A q \in DOMAIN fs : fs[q] = Absent

\* a sha256 digest was checked under the tag sha1 and refused
C21_Witness ==
    /\ out.set
    /\ out.fn = "check_hash"
    /\ arg.tag = "sha1"
    /\ arg.hash = Sha256(arg.c)
    /\ out.res = "mismatch"

\* C22: a call of download_and_unpack that follows a call with the same url
\* and path that returned Ok fetches nothing and extracts nothing.
C22_SecondCallSkips ==
    (kind = "unpack" /\ prev[1] = "ok") =>
        \A j \in 1..Len(log) : log[j].op \notin {"fetch", "unzip", "untar"}

\* C23: while the page is Downloading, Started sets the progress to 0 and
\* Advanced(p) sets it to p, both keeping the state and the items; Finished
\* and Errored move to the state of their name; and the page leaves
\* Downloading for a terminal state only by a Finished or Errored event.
C23_UpdateEffect ==
    [][/\ (state = "Downloading" /\ lastCall'.op = "update") =>
             CASE lastCall'.event.tag = "Started" ->
                    state' = state /\ items' = items /\ progress' = 0
               [] lastCall'.event.tag = "Advanced" ->
                    /\ state' = state
                    /\ items' = items
                    /\ progress' = lastCall'.event.percentage
               [] lastCall'.event.tag = "Finished" -> state' = "Finished"
               [] lastCall'.event.tag = "Errored" -> state' = "Errored"
       /\ (state = "Downloading" /\ state' # state) =>
             /\ lastCall'.op = "update"
             /\ lastCall'.event.tag = state'
             /\ state' \in Terminal]_vars

\* a Started event was delivered to a page that is Downloading a batch
C23_Witness ==
    /\ state = "Downloading"
    /\ items # <<>>
    /\ lastCall.op = "update"
    /\ lastCall.event.tag = "Started"

\* C24: the byte ratio that install reports to the UI, downloaded_bytes over
\* the declared package size, never exceeds 1.
C24_RatioAtMostOne ==
    ui.progress.num <= ui.progress.den

\* C25: with a server that delivers the valid content and no failure of the
\* disk or the network, a call running alone fetches the object at most once
\* and returns no error; a second fetch of the object, or an error, comes
\* only out of two calls overlapping on the path.
C25_RaceOnly ==
    (\/ \E r \in Runs : res[r] \in Errors
     \/ Count(1, 1, "fetch") + Count(2, 1, "fetch") > 1)
        => \A r \in Runs : pc[r] # "off"

\* both calls have fetched the object and one of them has returned an error
\* while the other has returned Ok
C25_Witness ==
    /\ \A r \in Runs : pc[r] = "done" /\ Count(r, 1, "fetch") = 1
    /\ \E r \in Runs : res[r] \in Errors
    /\ \E r \in Runs : res[r] = "ok"
    /\ fs[PathOf(1)] = Good(batch[1])

\* C26: install hands every failure to its caller as an Err: no call of
\* install ends in a panic.
C26_InstallReturnsErr ==
    (rtLast.set /\ rtLast.op = "install") => rtLast.res # "panic"

\* C27: whenever get_java_path(v) succeeds, the entry it resolves under is
\* one of the names list returns, an installed runtime directory and never
\* a plain file.
C27_ResolvesInstalled ==
    (rtLast.set /\ rtLast.op = "get_java_path" /\ rtLast.res = "ok") =>
        /\ rtLast.val.under \in Installed
        /\ entries[rtLast.val.under] # "file"

\* the stored accounts carry pairwise different mc_ids
DistinctIds(accs) ==
    \A i, j \in 1..Len(accs) : accs[i].mc_id = accs[j].mc_id => i = j

ActiveIn(accs) == {i \in 1..Len(accs) : accs[i].is_active}

C29_NoLostUpdate ==
    (acLast.set /\ acLast.op = "add" /\ acLast.res = "ok") =>
        document.accounts = acLast.before \o acLast.val

\* C30: a CreateInstance received while the name is empty or no version is
\* selected changes neither the view nor the Download page and starts no
\* batch; the view becomes Download, and the page starts Downloading, only
\* by a CreateInstance with a name and a version, which (when creating the
\* instance does not fail) sets the view to Download and calls start; and
\* a Finished download event sets the view to Instances.
C30_CreateInstance ==
    [][LET filled == /\ new_vanilla_instance.name # ""
                     /\ new_vanilla_instance.selected_version # <<>>
       IN  /\ (lastMsg'.msg = "CreateInstance" /\ ~filled) =>
                 UNCHANGED <<current_view, state, progress, items, lastCall>>
           /\ (lastMsg'.msg = "CreateInstance" /\ filled /\ lastMsg'.alert = "none") =>
                 /\ current_view' = "Download"
                 /\ lastCall'.op = "start"
                 /\ state' = "Downloading"
           /\ ((current_view' = "Download" /\ current_view # "Download")
                  \/ (state' = "Downloading" /\ state # "Downloading")) =>
                 lastMsg'.msg = "CreateInstance" /\ filled
           /\ (lastMsg'.msg = "DownloadEvent" /\ lastCall'.event.tag = "Finished") =>
                 current_view' = "Instances"]_vars

\* an instance was created from the filled form, its download finished and
\* the Instances view is shown again; then CreateInstance arrived with the
\* name cleared
C30_Witness ==
    /\ lastMsg.msg = "CreateInstance"
    /\ lastMsg.alert = "name"
    /\ state = "Finished"
    /\ current_view = "Instances"
    /\ new_vanilla_instance.selected_version # <<>>

====
